---- MODULE Spec2Model ----
(***************************************************************************)
(* The Simon Says screen of src/src/app/game/simon/page.tsx as a timed     *)
(* state machine.                                                          *)
(*                                                                         *)
(* React state is one variable per useState hook.  Handlers that the UI    *)
(* invokes read the state of the latest render; a callback handed to       *)
(* setTimeout / setInterval reads the values its closure captured when it  *)
(* was created, so every pending timer carries its captured values.        *)
(* isSequenceCancelledRef is a ref: one mutable cell shared by all         *)
(* closures.  A handler or callback and the render it causes are one step; *)
(* the step includes the cleanup of the effect of lines 278-287, which     *)
(* React runs with the previous render's values whenever sequenceInterval  *)
(* or buttonPressTimeout has changed.                                      *)
(*                                                                         *)
(* Every pending timer carries the milliseconds left until it fires.  Tick *)
(* lets time pass until the next timer is due, or until ResetDelay ms (the *)
(* shortest delay of the program) before that; the callbacks due at one    *)
(* instant run back to back, in any order; the user acts at these          *)
(* instants, after the callbacks that are due, at most once per instant.   *)
(* So between two callbacks the user acts right after the first or just    *)
(* before the second, which lets a timer the user's action schedules fall  *)
(* before as well as after the timers already pending.                     *)
(***************************************************************************)
EXTENDS Integers, Sequences, FiniteSets

VARIABLES
  gameState,            \* useState<GameState>, line 31
  difficulty,           \* line 32
  sequence,             \* line 33
  playerInput,          \* line 34
  currentRound,         \* line 35
  bestScore,            \* line 36
  showingIndex,         \* line 37
  strictMode,           \* line 38
  sequenceInterval,     \* line 40: id of the stored interval, 0 for null
  buttonPressTimeout,   \* line 41: 1 = handle of the latest press timeout, 0 for null
  isSequenceCancelled,  \* isSequenceCancelledRef.current, line 42
  intervals,            \* live setInterval chains: [id, seq, index, left, mark]
  timeouts,             \* pending setTimeout callbacks with their captured values
  storage,              \* localStorage item simon-best-<difficulty>: its digits, <<>> for none
  reached,              \* history: per difficulty, the highest Round while it was selected
  shown,                \* history: per difficulty, the BestScore last shown while it was selected
  acted,                \* the user already acted at this instant
  last,                 \* the handler or callback that ran last, with its timer's mark
  emitted               \* the events that handler or callback sent to the presentation layer

vars == <<gameState, difficulty, sequence, playerInput, currentRound, bestScore,
          showingIndex, strictMode, sequenceInterval, buttonPressTimeout,
          isSequenceCancelled, intervals, timeouts, storage, reached, shown,
          acted, last, emitted>>

(* ------------------------------ bounds -------------------------------- *)

\* Longest Sequence a game is played to.
MaxSeq == 3
\* Interval ids in use at once (live, stored or captured by a pending timer).
MaxRuns == 2
\* Math.random draws and button presses are taken from the MaxDraw lowest
\* indices and the highest index of the difficulty.
MaxDraw == 1
\* The user presses "Restart Round" or "Back to Menu" while fewer than
\* MaxStale timers that an earlier press interrupted are still pending.
MaxStale == 1

(* --------------------------- program constants ------------------------ *)

StepInterval == 700
HighlightMs == 400
InputDelay == 600
PressMs == 150
FailureDelay == 1500
SuccessDelay == 800
ResetDelay == 50

Difficulties == {"easy", "medium", "hard"}

\* DIFFICULTY_CONFIG[d].buttons
Buttons(d) == CASE d = "easy" -> 4 [] d = "medium" -> 7 [] d = "hard" -> 10

\* Math.round in place of Math.floor: the draw can be n itself.
RandomIndexRounded(n) == 0 .. n

\* Math.floor(Math.random() * n)
RandomIndex(n) == 0 .. (n - 1)

\* The indices of S the model draws from.
Sample(S) == {i \in S : i < MaxDraw \/ \A j \in S : j <= i}

(* ------------------------------ timers -------------------------------- *)

\* mark is history: "live" as scheduled, "stale" once resetGame or goToMenu
\* ran while the timer was pending, "cancelled" for the playback timers of a
\* run that resetGame or goToMenu interrupted while GameState was showing.

Timeout(kind, left, run, seq, round, diff, ival) ==
  [kind |-> kind, left |-> left, run |-> run, seq |-> seq, round |-> round,
   diff |-> diff, ival |-> ival, mark |-> "live"]

PlaybackKinds == {"clear", "input"}
StarterKinds == {"reset", "retry", "success"}

LiveIds == {r.id : r \in intervals}

IdsInUse ==
  (LiveIds \cup {sequenceInterval} \cup {t.run : t \in timeouts}
     \cup {t.ival : t \in timeouts}) \ {0}

FreeIds == (1 .. MaxRuns) \ IdsInUse

NewId == CHOOSE i \in FreeIds : \A j \in FreeIds : i <= j

\* Room for one more playback run, counting the runs pending timers will start.
RoomForRun ==
  Cardinality(IdsInUse) + Cardinality({t \in timeouts : t.kind \in StarterKinds})
    < MaxRuns

\* clearInterval(id): a no-op when id is null or no longer live.
Without(rs, id) == {r \in rs : r.id # id}

Op(name) == [op |-> name, mark |-> "live"]

Ev(ev, arg, mark) == [ev |-> ev, arg |-> arg, mark |-> mark]

(* ----------------------------- best score ----------------------------- *)

\* Number.prototype.toString: the decimal digits of n, most significant first.
RECURSIVE ToString(_)
ToString(n) == IF n < 10 THEN <<n>> ELSE ToString(n \div 10) \o <<n % 10>>

\* parseInt of a string of decimal digits.
RECURSIVE ParseInt(_)
ParseInt(s) ==
  IF Len(s) = 1 THEN s[1]
  ELSE 10 * ParseInt(SubSeq(s, 1, Len(s) - 1)) + s[Len(s)]

\* The best score stored for difficulty d: 0 when no item is stored.
Stored(d) == IF storage[d] = <<>> THEN 0 ELSE ParseInt(storage[d])

\* The load effect, lines 45-48: BestScore after it, from b.
Loaded(d, b) == IF storage[d] # <<>> THEN ParseInt(storage[d]) ELSE b

Higher(a, b) == IF a > b THEN a ELSE b

\* The effects of lines 45-56 after a render that changed currentRound or
\* difficulty.  The load effect runs if difficulty changed; the save effect
\* runs in the same commit on the BestScore of that render, its
\* setBestScore coming after the load effect's, and once more on the next
\* render if BestScore changed.
BestScoreEffects ==
  LET d == difficulty'
      r == currentRound'
      loaded == IF d # difficulty THEN Loaded(d, bestScore) ELSE bestScore
      first == r > bestScore
      queued == IF first THEN r ELSE loaded
      second == r > queued
  IN  /\ bestScore' = IF second THEN r ELSE queued
      /\ storage' = IF first \/ second
                      THEN [storage EXCEPT ![d] = ToString(r)]
                      ELSE storage
      /\ reached' = [reached EXCEPT ![d] = Higher(@, r)]
      /\ shown' = [shown EXCEPT ![d] = bestScore']

\* A render that changed neither currentRound nor difficulty nor bestScore.
NoScoreChange == UNCHANGED <<bestScore, storage, reached, shown>>

(* ------------------------------- state -------------------------------- *)

Init ==
  /\ gameState = "idle"
  /\ difficulty = "easy"
  /\ sequence = <<>>
  /\ playerInput = <<>>
  /\ currentRound = 0
  /\ bestScore = 0
  /\ storage = [d \in Difficulties |-> <<>>]
  /\ reached = [d \in Difficulties |-> 0]
  /\ shown = [d \in Difficulties |-> 0]
  /\ showingIndex = -1
  /\ strictMode = FALSE
  /\ sequenceInterval = 0
  /\ buttonPressTimeout = 0
  /\ isSequenceCancelled = FALSE
  /\ intervals = {}
  /\ timeouts = {}
  /\ acted = FALSE
  /\ last = Op("init")
  /\ emitted = {}

\* What resetGame and goToMenu do to the history mark of a pending timer.
Interrupt(t) ==
  [t EXCEPT !.mark = IF gameState = "showing" /\ t.kind \in PlaybackKinds
                       THEN "cancelled"
                       ELSE IF @ = "cancelled" THEN @ ELSE "stale"]

InterruptRun(r) ==
  [r EXCEPT !.mark = IF gameState = "showing"
                       THEN "cancelled"
                       ELSE IF @ = "cancelled" THEN @ ELSE "stale"]

\* The mark of a timeout that the interval callback of a run marked m schedules.
Inherit(m) == IF m = "cancelled" THEN m ELSE "live"

\* clearTimeout(buttonPressTimeout), guarded by its truthiness.
ClearPress(ts) ==
  IF buttonPressTimeout # 0 THEN {t \in ts : t.kind # "press"} ELSE ts

\* The cleanup of the effect of lines 278-287, run because the render changed
\* sequenceInterval or buttonPressTimeout: clearInterval and clearTimeout of
\* the values of the previous render.  First, the effect as it would be
\* with an empty dependency list: nothing is cleared between renders.
CleanupIntervalsNone(rs) == rs

CleanupIntervals(rs) == Without(rs, sequenceInterval)

CleanupTimeouts(ts) == ClearPress(ts)

(* ---------------------------- showSequence ---------------------------- *)

\* showSequence(seq) of a closure that captured sequenceInterval = ival, with
\* ts the timeouts that stay pending; the new interval id changes
\* sequenceInterval, so the effect cleanup runs.
ShowSequence(seq, ival, ts) ==
  /\ showingIndex' = -1
  /\ isSequenceCancelled' = FALSE
  /\ intervals' = CleanupIntervals(Without(intervals, ival)) \cup
       {[id |-> NewId, seq |-> seq, index |-> 0, left |-> StepInterval,
         mark |-> "live"]}
  /\ sequenceInterval' = NewId
  /\ timeouts' = CleanupTimeouts(ts)

\* setSequenceInterval(null) by the interval callback of run id, with ts the
\* timeouts pending after it; the effect cleanup runs if the state changes.
StopInterval(id, ts) ==
  /\ sequenceInterval' = 0
  /\ IF sequenceInterval # 0
       THEN /\ intervals' = CleanupIntervals(Without(intervals, id))
            /\ timeouts' = CleanupTimeouts(ts)
       ELSE /\ intervals' = Without(intervals, id)
            /\ timeouts' = ts

\* One firing of the setInterval callback of run id.
IntervalStep(r) ==
  /\ r \in intervals
  /\ r.left = 0
  /\ last' = [op |-> "interval", mark |-> r.mark]
  /\ LET id == r.id IN
       IF isSequenceCancelled
         THEN /\ StopInterval(id, timeouts)
              /\ emitted' = {}
              /\ UNCHANGED showingIndex
         ELSE IF r.index < Len(r.seq)
           THEN /\ showingIndex' = r.seq[r.index + 1]
                /\ emitted' = {Ev("highlight", r.seq[r.index + 1], r.mark),
                               Ev("tone", r.seq[r.index + 1], r.mark)}
                /\ timeouts' = timeouts \cup
                     {[Timeout("clear", HighlightMs, id, <<>>, 0, "easy", 0)
                         EXCEPT !.mark = Inherit(r.mark)]}
                /\ intervals' = (intervals \ {r}) \cup
                     {[r EXCEPT !.index = @ + 1, !.left = StepInterval]}
                /\ UNCHANGED sequenceInterval
           ELSE /\ StopInterval(id, timeouts \cup
                     {[Timeout("input", InputDelay, id, <<>>, 0, "easy", 0)
                         EXCEPT !.mark = Inherit(r.mark)]})
                /\ emitted' = {}
                /\ UNCHANGED showingIndex
  /\ UNCHANGED <<gameState, difficulty, sequence, playerInput, currentRound,
                 strictMode, buttonPressTimeout, isSequenceCancelled, acted>>
  /\ NoScoreChange

\* A pending timeout t is due.
Due(t) == t \in timeouts /\ t.left = 0

Fired(t) == [op |-> t.kind, mark |-> t.mark]

\* The 400 ms callback that ends a playback highlight.
ClearHighlight(t) ==
  /\ Due(t) /\ t.kind = "clear"
  /\ timeouts' = timeouts \ {t}
  /\ last' = Fired(t)
  /\ IF ~isSequenceCancelled
       THEN showingIndex' = -1 /\ emitted' = {Ev("clear", showingIndex, t.mark)}
       ELSE UNCHANGED showingIndex /\ emitted' = {}
  /\ UNCHANGED <<gameState, difficulty, sequence, playerInput, currentRound,
                 strictMode, sequenceInterval, buttonPressTimeout,
                 isSequenceCancelled, intervals, acted>>
  /\ NoScoreChange

\* The 600 ms callback after the last element of a playback run.
TransitionToInput(t) ==
  /\ Due(t) /\ t.kind = "input"
  /\ timeouts' = timeouts \ {t}
  /\ last' = Fired(t)
  /\ IF ~isSequenceCancelled
       THEN gameState' = "input" /\ emitted' = {Ev("input", -1, t.mark)}
       ELSE UNCHANGED gameState /\ emitted' = {}
  /\ UNCHANGED <<difficulty, sequence, playerInput, currentRound, showingIndex,
                 strictMode, sequenceInterval, buttonPressTimeout,
                 isSequenceCancelled, intervals, acted>>
  /\ NoScoreChange

(* ------------------------- start and input ---------------------------- *)

\* startGame, lines 112-119; its showSequence is the latest render's.
StartGame ==
  \E r \in Sample(RandomIndex(Buttons(difficulty))) :
    /\ gameState' = "showing"
    /\ currentRound' = 1
    /\ playerInput' = <<>>
    /\ sequence' = <<r>>
    /\ ShowSequence(<<r>>, sequenceInterval, timeouts)
    /\ last' = Op("startGame")
    /\ emitted' = {}
    /\ UNCHANGED <<difficulty, strictMode, buttonPressTimeout>>
    /\ BestScoreEffects

\* The comparison is made for the first input of a round only.
WrongAtFirst(b) ==
  Len(playerInput) = 0 /\ (Len(sequence) = 0 \/ sequence[1] # b)

\* newInput[newInput.length - 1] !== sequence[newInput.length - 1]; past the
\* end of sequence the right-hand side is undefined and the test is true.
Wrong(b) ==
  LET n == Len(playerInput) + 1 IN n > Len(sequence) \/ sequence[n] # b

\* The round is declared complete one input early.
CompletesEarly(b) == ~Wrong(b) /\ Len(playerInput) + 1 >= Len(sequence) - 1

\* newInput.length === sequence.length, reached only when the input was right.
Completes(b) == ~Wrong(b) /\ Len(playerInput) + 1 = Len(sequence)

\* An early return of a handler: nothing is set, scheduled or played.
Ignored ==
  /\ emitted' = {}
  /\ UNCHANGED <<gameState, difficulty, sequence, playerInput, currentRound,
                 showingIndex, strictMode, sequenceInterval, buttonPressTimeout,
                 isSequenceCancelled, intervals, timeouts>>

\* handleButtonClick(b) past its guard, lines 169-226; the new timeout id
\* changes buttonPressTimeout, so the effect cleanup runs.
AcceptInput(b) ==
         /\ showingIndex' = b
         /\ buttonPressTimeout' = 1
         /\ playerInput' = Append(playerInput, b)
         /\ LET press == ClearPress(timeouts) \cup
                           {Timeout("press", PressMs, 0, <<>>, 0, "easy", 0)}
            IN  IF Wrong(b)
                  THEN /\ gameState' = "failure"
                       /\ emitted' = {Ev("press", b, "live"), Ev("tone", b, "live"),
                                      Ev("error", -1, "live")}
                       /\ timeouts' = press \cup
                            {IF strictMode
                               THEN Timeout("strict", FailureDelay, 0, <<>>, 0, "easy", 0)
                               ELSE Timeout("retry", FailureDelay, 0, sequence, 0,
                                            "easy", sequenceInterval)}
                  ELSE /\ emitted' = {Ev("press", b, "live"), Ev("tone", b, "live")}
                       /\ IF Completes(b)
                            THEN /\ gameState' = "success"
                                 /\ timeouts' = press \cup
                                      {Timeout("success", SuccessDelay, 0, sequence,
                                               currentRound, difficulty,
                                               sequenceInterval)}
                            ELSE /\ timeouts' = press
                                 /\ UNCHANGED gameState
         /\ intervals' = CleanupIntervals(intervals)
         /\ UNCHANGED <<difficulty, sequence, currentRound, strictMode,
                        sequenceInterval, isSequenceCancelled>>

\* The guard lets every GameState but idle through.
HandleButtonClickUnguarded(b) ==
  IF gameState = "idle" THEN Ignored ELSE AcceptInput(b)

\* handleButtonClick(b), lines 166-227.
HandleButtonClick(b) ==
  IF gameState # "input" THEN Ignored ELSE AcceptInput(b)

\* handleKeyPress, lines 231-271, for a key that maps to button index b.
HandleKeyPress(b) ==
  IF gameState # "input"
    THEN Ignored
    ELSE IF b >= 0 /\ b < Buttons(difficulty) THEN HandleButtonClick(b) ELSE Ignored

\* The 150 ms callback that ends a press highlight.
PressClear(t) ==
  /\ Due(t) /\ t.kind = "press"
  /\ timeouts' = timeouts \ {t}
  /\ last' = Fired(t)
  /\ showingIndex' = -1
  /\ emitted' = {Ev("clear", showingIndex, t.mark)}
  /\ UNCHANGED <<gameState, difficulty, sequence, playerInput, currentRound,
                 strictMode, sequenceInterval, buttonPressTimeout,
                 isSequenceCancelled, intervals, acted>>
  /\ NoScoreChange

\* The strict callback without its setCurrentRound(0).
StrictGameOverKeepsRound(t) ==
  /\ Due(t) /\ t.kind = "strict"
  /\ timeouts' = timeouts \ {t}
  /\ last' = Fired(t)
  /\ gameState' = "idle"
  /\ sequence' = <<>>
  /\ playerInput' = <<>>
  /\ emitted' = {}
  /\ UNCHANGED <<difficulty, currentRound, showingIndex, strictMode,
                 sequenceInterval, buttonPressTimeout, isSequenceCancelled,
                 intervals, acted>>
  /\ BestScoreEffects

\* The 1500 ms callback of a wrong input in strict mode, lines 195-200.
StrictGameOver(t) ==
  /\ Due(t) /\ t.kind = "strict"
  /\ timeouts' = timeouts \ {t}
  /\ last' = Fired(t)
  /\ gameState' = "idle"
  /\ currentRound' = 0
  /\ sequence' = <<>>
  /\ playerInput' = <<>>
  /\ emitted' = {}
  /\ UNCHANGED <<difficulty, showingIndex, strictMode, sequenceInterval,
                 buttonPressTimeout, isSequenceCancelled, intervals, acted>>
  /\ BestScoreEffects

\* The 1500 ms callback of a wrong input in non-strict mode, lines 203-207.
RetryReplay(t) ==
  /\ Due(t) /\ t.kind = "retry"
  /\ last' = Fired(t)
  /\ playerInput' = <<>>
  /\ gameState' = "showing"
  /\ ShowSequence(t.seq, t.ival, timeouts \ {t})
  /\ emitted' = {}
  /\ UNCHANGED <<difficulty, sequence, currentRound, strictMode,
                 buttonPressTimeout, acted>>
  /\ NoScoreChange

\* The round counter is written back without the increment.
NextRoundSame(n) == n

\* const nextRound = currentRound + 1, line 218.
NextRound(n) == n + 1

\* The new element is put in front of the sequence.
ExtendedInFront(seq, r) == <<r>> \o seq

\* const newSequence = [...sequence, <random index>], line 220.
Extended(seq, r) == Append(seq, r)

\* The 800 ms callback of a completed round, lines 216-225.
SuccessSettle(t) ==
  /\ Due(t) /\ t.kind = "success"
  /\ \E r \in Sample(RandomIndex(Buttons(t.diff))) :
       /\ currentRound' = NextRound(t.round)
       /\ sequence' = Extended(t.seq, r)
       /\ playerInput' = <<>>
       /\ gameState' = "showing"
       /\ ShowSequence(Extended(t.seq, r), t.ival, timeouts \ {t})
  /\ last' = Fired(t)
  /\ emitted' = {}
  /\ UNCHANGED <<difficulty, strictMode, buttonPressTimeout, acted>>
  /\ BestScoreEffects

(* -------------------------- reset and menu ---------------------------- *)

\* resetGame without its setGameState('showing').
ResetGameKeepsState ==
  \E r \in Sample(RandomIndex(Buttons(difficulty))) :
    /\ isSequenceCancelled' = TRUE
    /\ intervals' = {InterruptRun(i) : i \in Without(intervals, sequenceInterval)}
    /\ sequenceInterval' = 0
    /\ buttonPressTimeout' = 0
    /\ showingIndex' = -1
    /\ playerInput' = <<>>
    /\ IF gameState # "idle"
         THEN /\ currentRound' = 1
              /\ sequence' = <<r>>
              /\ UNCHANGED gameState
              /\ timeouts' = {Interrupt(t) : t \in ClearPress(timeouts)} \cup
                   {Timeout("reset", ResetDelay, 0, <<r>>, 0, "easy", sequenceInterval)}
         ELSE /\ gameState' = "idle"
              /\ currentRound' = 0
              /\ sequence' = <<>>
              /\ timeouts' = {Interrupt(t) : t \in ClearPress(timeouts)}
    /\ last' = Op("resetGame")
    /\ emitted' = {}
    /\ UNCHANGED <<difficulty, strictMode>>
    /\ BestScoreEffects

\* resetGame, lines 289-323.
ResetGame ==
  \E r \in Sample(RandomIndex(Buttons(difficulty))) :
    /\ isSequenceCancelled' = TRUE
    /\ intervals' = {InterruptRun(i) : i \in Without(intervals, sequenceInterval)}
    /\ sequenceInterval' = 0
    /\ buttonPressTimeout' = 0
    /\ showingIndex' = -1
    /\ playerInput' = <<>>
    /\ IF gameState # "idle"
         THEN /\ currentRound' = 1
              /\ sequence' = <<r>>
              /\ gameState' = "showing"
              /\ timeouts' = {Interrupt(t) : t \in ClearPress(timeouts)} \cup
                   {Timeout("reset", ResetDelay, 0, <<r>>, 0, "easy", sequenceInterval)}
         ELSE /\ gameState' = "idle"
              /\ currentRound' = 0
              /\ sequence' = <<>>
              /\ timeouts' = {Interrupt(t) : t \in ClearPress(timeouts)}
    /\ last' = Op("resetGame")
    /\ emitted' = {}
    /\ UNCHANGED <<difficulty, strictMode>>
    /\ BestScoreEffects

\* The 50 ms callback of resetGame, lines 314-316.
ResetDelayed(t) ==
  /\ Due(t) /\ t.kind = "reset"
  /\ last' = Fired(t)
  /\ ShowSequence(t.seq, t.ival, timeouts \ {t})
  /\ emitted' = {}
  /\ UNCHANGED <<gameState, difficulty, sequence, playerInput, currentRound,
                 strictMode, buttonPressTimeout, acted>>
  /\ NoScoreChange

\* goToMenu without its setShowingIndex(-1).
GoToMenuKeepsHighlight ==
  /\ isSequenceCancelled' = TRUE
  /\ intervals' = {InterruptRun(i) : i \in Without(intervals, sequenceInterval)}
  /\ sequenceInterval' = 0
  /\ timeouts' = {Interrupt(t) : t \in ClearPress(timeouts)}
  /\ buttonPressTimeout' = 0
  /\ gameState' = "idle"
  /\ currentRound' = 0
  /\ sequence' = <<>>
  /\ playerInput' = <<>>
  /\ UNCHANGED showingIndex
  /\ last' = Op("goToMenu")
  /\ emitted' = {}
  /\ UNCHANGED <<difficulty, strictMode>>
  /\ BestScoreEffects

\* goToMenu, lines 325-344.
GoToMenu ==
  /\ isSequenceCancelled' = TRUE
  /\ intervals' = {InterruptRun(i) : i \in Without(intervals, sequenceInterval)}
  /\ sequenceInterval' = 0
  /\ timeouts' = {Interrupt(t) : t \in ClearPress(timeouts)}
  /\ buttonPressTimeout' = 0
  /\ gameState' = "idle"
  /\ currentRound' = 0
  /\ sequence' = <<>>
  /\ playerInput' = <<>>
  /\ showingIndex' = -1
  /\ last' = Op("goToMenu")
  /\ emitted' = {}
  /\ UNCHANGED <<difficulty, strictMode>>
  /\ BestScoreEffects

(* --------------------------- the user and time ------------------------ *)

NothingDue == (\A t \in timeouts : t.left > 0) /\ (\A r \in intervals : r.left > 0)

\* The user may act: no callback is due and the user has not acted at this instant.
UserTurn == ~acted /\ NothingDue

\* The button indices the model presses.
Pressed == Sample(0 .. (Buttons(difficulty) - 1))

\* The button indices the number keys 1..9 and 0 map to, lines 238-242.
Keyed == Sample(0 .. 9)

\* A submission that makes the code schedule a callback that starts a playback.
StartsReplay(b) == gameState = "input" /\ (Completes(b) \/ (Wrong(b) /\ ~strictMode))

\* The submissions the model makes: rounds are completed up to MaxSeq.
InBounds(b) ==
  /\ (gameState = "input" /\ Completes(b)) => Len(sequence) < MaxSeq
  /\ StartsReplay(b) => RoomForRun

\* "Start Game", rendered while idle (lines 362, 386).
ClickStart ==
  /\ UserTurn /\ gameState = "idle" /\ RoomForRun
  /\ StartGame
  /\ acted' = TRUE

\* A difficulty button, rendered while idle (lines 362-375).
SwitchDifficulty(d) ==
  /\ UserTurn /\ gameState = "idle" /\ d # difficulty
  /\ difficulty' = d
  /\ acted' = TRUE
  /\ last' = Op("setDifficulty")
  /\ emitted' = {}
  /\ UNCHANGED <<gameState, sequence, playerInput, currentRound, showingIndex,
                 strictMode, sequenceInterval, buttonPressTimeout,
                 isSequenceCancelled, intervals, timeouts>>
  /\ BestScoreEffects

\* A difficulty button pressed before any round has been scored.
SetDifficulty(d) == bestScore = 0 /\ SwitchDifficulty(d)

\* The strict mode checkbox, rendered while idle (lines 378-385).
SetStrictMode ==
  /\ UserTurn /\ gameState = "idle"
  /\ strictMode' = ~strictMode
  /\ acted' = TRUE
  /\ last' = Op("setStrictMode")
  /\ emitted' = {}
  /\ UNCHANGED <<gameState, difficulty, sequence, playerInput, currentRound,
                 showingIndex, sequenceInterval, buttonPressTimeout,
                 isSequenceCancelled, intervals, timeouts>>
  /\ NoScoreChange

\* A game button, enabled while GameState is input (lines 411-412).
ClickButton(b) ==
  /\ UserTurn /\ gameState = "input" /\ InBounds(b)
  /\ HandleButtonClick(b)
  /\ acted' = TRUE
  /\ last' = Op("submit")
  /\ NoScoreChange

\* A key, in any GameState (the listener of lines 273-274).
KeyPress(b) ==
  /\ UserTurn /\ InBounds(b)
  /\ HandleKeyPress(b)
  /\ acted' = TRUE
  /\ last' = Op(IF b < Buttons(difficulty) THEN "submit" ELSE "key")
  /\ NoScoreChange

\* The timers that were pending when resetGame or goToMenu last ran.
Interrupted ==
  {t \in timeouts : t.mark # "live"} \cup {r \in intervals : r.mark # "live"}

MayInterrupt == Cardinality(Interrupted) < MaxStale

\* "Restart Round", rendered while not idle (lines 393, 421).
ClickReset ==
  /\ UserTurn /\ gameState # "idle" /\ RoomForRun /\ MayInterrupt
  /\ ResetGame
  /\ acted' = TRUE

\* "Back to Menu", rendered while not idle (lines 393, 424).
ClickMenu ==
  /\ UserTurn /\ gameState # "idle" /\ MayInterrupt
  /\ GoToMenu
  /\ acted' = TRUE

\* The milliseconds until the next timer is due; 0 when none is pending.
NextDue ==
  LET lefts == {t.left : t \in timeouts} \cup {r.left : r \in intervals}
  IN  IF lefts = {} THEN 0 ELSE CHOOSE d \in lefts : \A e \in lefts : d <= e

\* The lapses of time the model takes: up to the next timer, or up to
\* ResetDelay ms before it.
Lapses ==
  {NextDue} \cup (IF NextDue > ResetDelay THEN {NextDue - ResetDelay} ELSE {})

\* Time passes.
Tick ==
  /\ NothingDue
  /\ \E d \in Lapses :
       /\ timeouts' = {[t EXCEPT !.left = @ - d] : t \in timeouts}
       /\ intervals' = {[r EXCEPT !.left = @ - d] : r \in intervals}
  /\ acted' = FALSE
  /\ last' = Op("tick")
  /\ emitted' = {}
  /\ UNCHANGED <<gameState, difficulty, sequence, playerInput, currentRound,
                 showingIndex, strictMode, sequenceInterval, buttonPressTimeout,
                 isSequenceCancelled>>
  /\ NoScoreChange

Next ==
  \/ ClickStart
  \/ \E d \in Difficulties : SetDifficulty(d)
  \/ SetStrictMode
  \/ \E b \in Pressed : ClickButton(b)
  \/ \E b \in Keyed : KeyPress(b)
  \/ ClickReset
  \/ ClickMenu
  \/ \E r \in intervals : IntervalStep(r)
  \/ \E t \in timeouts : ClearHighlight(t)
  \/ \E t \in timeouts : TransitionToInput(t)
  \/ \E t \in timeouts : PressClear(t)
  \/ \E t \in timeouts : StrictGameOver(t)
  \/ \E t \in timeouts : RetryReplay(t)
  \/ \E t \in timeouts : SuccessSettle(t)
  \/ \E t \in timeouts : ResetDelayed(t)
  \/ Tick

Spec == Init /\ [][Next]_vars

(* The engine's operations called in the states where the screen offers no  *)
(* control for them (spec section 6: reset(), goToMenu(), submitInput(b)). *)

\* resetGame while idle, the else branch of lines 317-322.
ApiReset ==
  /\ UserTurn /\ gameState = "idle"
  /\ ResetGame
  /\ acted' = TRUE

\* goToMenu while idle.
ApiMenu ==
  /\ UserTurn /\ gameState = "idle"
  /\ GoToMenu
  /\ acted' = TRUE

\* handleButtonClick(b) while the buttons are disabled or not rendered.
ApiSubmit(b) ==
  /\ UserTurn /\ gameState # "input"
  /\ HandleButtonClick(b)
  /\ acted' = TRUE
  /\ last' = Op("submit")
  /\ NoScoreChange

NextApi ==
  \/ Next
  \/ ApiReset
  \/ ApiMenu
  \/ \E b \in Pressed : ApiSubmit(b)

SpecApi == Init /\ [][NextApi]_vars

(* Games on several difficulties: the user changes the difficulty whenever  *)
(* the menu is shown, repeats the Sequence without a mistake and leaves a   *)
(* game through "Back to Menu".                                             *)

\* A game button pressed at its place in the Sequence.
ClickRight(b) == ~Wrong(b) /\ ClickButton(b)

NextSwitch ==
  \/ ClickStart
  \/ \E d \in Difficulties : SwitchDifficulty(d)
  \/ \E b \in Pressed : ClickRight(b)
  \/ ClickMenu
  \/ \E r \in intervals : IntervalStep(r)
  \/ \E t \in timeouts : ClearHighlight(t)
  \/ \E t \in timeouts : TransitionToInput(t)
  \/ \E t \in timeouts : PressClear(t)
  \/ \E t \in timeouts : SuccessSettle(t)
  \/ Tick

SpecSwitch == Init /\ [][NextSwitch]_vars

\* Ids never run out: every playback that is started finds a free id.
IdsSuffice ==
  Cardinality(IdsInUse) + Cardinality({t \in timeouts : t.kind \in StarterKinds})
    <= MaxRuns

(* ------------------------------ claims -------------------------------- *)

PlaybackEvents == {"highlight", "clear", "input"}

\* C1: once resetGame or goToMenu has interrupted a playback run during
\* showing, no highlight, clear-highlight or transition-to-input event of
\* that run fires any more.
C1_NoEventOfCancelledRun ==
  \A e \in emitted : e.ev \in PlaybackEvents => e.mark # "cancelled"

C3_StaleCallbackChangesNothing ==
  [][last'.mark = "stale" =>
       UNCHANGED <<gameState, currentRound, sequence, playerInput>>]_vars

\* C4: right after goToMenu, from any GameState, the state is idle with
\* Round 0, Sequence and PlayerInput empty, no highlighted button, the
\* cancellation flag set, and the stored interval and press timeout cleared.
C4_GoToMenuClearsAll ==
  [][last'.op = "goToMenu" =>
       /\ gameState' = "idle"
       /\ currentRound' = 0
       /\ sequence' = <<>>
       /\ playerInput' = <<>>
       /\ showingIndex' = -1
       /\ isSequenceCancelled'
       /\ sequenceInterval' = 0
       /\ sequenceInterval \notin {r.id : r \in intervals'}
       /\ buttonPressTimeout' = 0
       /\ \A t \in timeouts' : t.kind # "press"]_vars

\* goToMenu ran while a playback run was showing, with timers of it pending.
C4_Witness ==
  /\ last.op = "goToMenu"
  /\ \E t \in timeouts : t.mark = "cancelled"

\* C5: resetGame in a non-idle state yields showing, Round 1, empty
\* PlayerInput and a one-element Sequence, and schedules, ResetDelay ms
\* later, the start of a playback run of that Sequence; resetGame while idle
\* yields idle, Round 0, empty Sequence and schedules no playback.
C5_ResetGame ==
  [][/\ last'.op = "resetGame" =>
          IF gameState # "idle"
            THEN /\ gameState' = "showing"
                 /\ currentRound' = 1
                 /\ playerInput' = <<>>
                 /\ Len(sequence') = 1
                 /\ \E t \in timeouts' \ timeouts :
                      /\ t.kind = "reset" /\ t.left = ResetDelay
                      /\ t.seq = sequence'
            ELSE /\ gameState' = "idle"
                 /\ currentRound' = 0
                 /\ sequence' = <<>>
                 /\ \A t \in timeouts' : t.kind = "reset" => t.mark # "live"
                 /\ {r.id : r \in intervals'} \subseteq {r.id : r \in intervals}
     /\ last'.op = "reset" =>
          \E t \in timeouts \ timeouts' :
            /\ t.kind = "reset"
            /\ \E r \in intervals' \ intervals :
                 r.seq = t.seq /\ r.index = 0 /\ r.left = StepInterval]_vars

\* The playback run that resetGame scheduled has started, on its Sequence.
C5_Witness ==
  /\ last.op = "reset"
  /\ gameState = "showing" /\ currentRound = 1
  /\ \E r \in intervals : r.seq = sequence /\ r.index = 0

\* C6: startGame yields showing, Round 1, empty PlayerInput and a Sequence
\* of one element in 0..button_count-1 of the selected difficulty.
C6_StartGame ==
  last.op = "startGame" =>
    /\ gameState = "showing"
    /\ currentRound = 1
    /\ playerInput = <<>>
    /\ Len(sequence) = 1
    /\ sequence[1] \in 0 .. (Buttons(difficulty) - 1)

\* A hard game started with the highest button.
C6_Witness ==
  last.op = "startGame" /\ difficulty = "hard" /\ sequence = <<9>>

\* C7: in showing, input, success and failure, len(Sequence) = Round.
C7_LengthIsRound ==
  gameState \in {"showing", "input", "success", "failure"} =>
    Len(sequence) = currentRound

\* The success callback of a round fired after resetGame had restarted the game.
C7_Witness ==
  /\ last = [op |-> "success", mark |-> "stale"]
  /\ gameState = "showing" /\ currentRound = 2

\* C8: len(PlayerInput) <= len(Sequence).
C8_InputWithinSequence == Len(playerInput) <= Len(sequence)

C10_IgnoredOutsideInput ==
  [][(last'.op = "submit" /\ gameState # "input") =>
       /\ UNCHANGED <<gameState, difficulty, sequence, playerInput, currentRound,
                      showingIndex, strictMode, sequenceInterval,
                      buttonPressTimeout, isSequenceCancelled, intervals, timeouts>>
       /\ emitted' = {}]_vars

\* handleButtonClick was called during a playback, with a highlight showing.
C10_Witness ==
  /\ last.op = "submit" /\ gameState = "showing" /\ showingIndex # -1
  /\ emitted = {}

\* C11: a submission b while GameState is input appends b to PlayerInput; a
\* right b short of the end leaves input, a right b at the end gives
\* success, a wrong b gives failure and the error signal, strict or not.
C11_SubmitInInput ==
  [][(last'.op = "submit" /\ gameState = "input") =>
       LET p == playerInput
           n == Len(p) + 1
       IN  /\ Len(playerInput') = n
           /\ SubSeq(playerInput', 1, n - 1) = p
           /\ LET b == playerInput'[n]
                   right == n <= Len(sequence) /\ sequence[n] = b
               IN  /\ (right /\ n < Len(sequence)) => gameState' = "input"
                   /\ (right /\ n = Len(sequence)) => gameState' = "success"
                   /\ ~right =>
                        /\ gameState' = "failure"
                        /\ \E e \in emitted' : e.ev = "error"
                   /\ right => \A e \in emitted' : e.ev # "error"]_vars

\* A wrong input at the second position in strict mode: failure, with the
\* error signal.
C11_Witness ==
  /\ last.op = "submit" /\ strictMode
  /\ gameState = "failure" /\ Len(playerInput) = 2
  /\ \E e \in emitted : e.ev = "error"

\* C12: a submission that completes a round schedules the settle callback
\* SuccessDelay ms later, on the Sequence and Round of that round; the
\* callback appends one element to that Sequence (which stays the prefix),
\* sets Round to that Round plus 1, clears PlayerInput, sets showing and
\* starts a playback of the whole extended Sequence from index 0.
C12_RoundExtends ==
  [][/\ (last'.op = "submit" /\ gameState = "input" /\ gameState' = "success") =>
          \E t \in timeouts' \ timeouts :
            /\ t.kind = "success" /\ t.left = SuccessDelay
            /\ t.seq = sequence /\ t.round = currentRound
     /\ last'.op = "success" =>
          \E t \in timeouts \ timeouts' :
            /\ t.kind = "success"
            /\ Len(sequence') = Len(t.seq) + 1
            /\ SubSeq(sequence', 1, Len(t.seq)) = t.seq
            /\ currentRound' = t.round + 1
            /\ playerInput' = <<>>
            /\ gameState' = "showing"
            /\ \E r \in intervals' :
                 r.id = sequenceInterval' /\ r.seq = sequence' /\ r.index = 0]_vars

\* The second round completed and the playback of three elements started.
C12_Witness ==
  /\ last = [op |-> "success", mark |-> "live"]
  /\ currentRound = 3 /\ Len(sequence) = 3 /\ sequence[1] # sequence[2]

\* C13: in non-strict mode a wrong input gives failure, leaves Sequence and
\* Round alone and schedules the retry callback FailureDelay ms later; when
\* that callback has run, with no resetGame or goToMenu in between, Sequence
\* is the Sequence of the wrong input, Round is unchanged, PlayerInput is
\* empty, GameState is showing and a playback of that Sequence has started.
C13_NonStrictRetry ==
  [][/\ (last'.op = "submit" /\ gameState = "input" /\ gameState' = "failure"
          /\ ~strictMode) =>
          /\ UNCHANGED <<sequence, currentRound>>
          /\ \E t \in timeouts' \ timeouts :
               t.kind = "retry" /\ t.left = FailureDelay /\ t.seq = sequence
     /\ last' = [op |-> "retry", mark |-> "live"] =>
          \E t \in timeouts \ timeouts' :
            /\ t.kind = "retry"
            /\ sequence' = t.seq
            /\ UNCHANGED currentRound
            /\ playerInput' = <<>>
            /\ gameState' = "showing"
            /\ \E r \in intervals' :
                 r.id = sequenceInterval' /\ r.seq = t.seq /\ r.index = 0]_vars

\* C14: in strict mode a wrong input gives failure and schedules the
\* game-over callback FailureDelay ms later; that callback sets idle,
\* Round 0, Sequence and PlayerInput empty, appends nothing and starts or
\* schedules no playback.
C14_StrictGameOver ==
  [][/\ (last'.op = "submit" /\ gameState = "input" /\ gameState' = "failure"
          /\ strictMode) =>
          \E t \in timeouts' \ timeouts :
            t.kind = "strict" /\ t.left = FailureDelay
     /\ last'.op = "strict" =>
          /\ gameState' = "idle"
          /\ currentRound' = 0
          /\ sequence' = <<>>
          /\ playerInput' = <<>>
          /\ intervals' \subseteq intervals
          /\ timeouts' \subseteq timeouts]_vars

\* The game is over after a wrong input in strict mode.
C14_Witness ==
  /\ last = [op |-> "strict", mark |-> "live"]
  /\ gameState = "idle" /\ currentRound = 0 /\ sequence = <<>>
  /\ strictMode

\* C15: the BestScore shown is the highest Round reached while the selected
\* difficulty was selected, 0 if it was never played.
C15_BestIsHighestRound == bestScore = reached[difficulty]

\* C16: for every difficulty the stored best score never decreases, and the
\* BestScore shown while a difficulty is selected is never less than the one
\* shown when it was last selected.
C16_BestNeverDecreases ==
  [][/\ \A d \in Difficulties :
          (IF storage'[d] = <<>> THEN 0 ELSE ParseInt(storage'[d])) >= Stored(d)
     /\ bestScore' >= shown[difficulty']]_vars

\* The stored best scores alone never decrease.
C16_StoredNeverDecreases ==
  [][\A d \in Difficulties :
       (IF storage'[d] = <<>> THEN 0 ELSE ParseInt(storage'[d])) >= Stored(d)]_vars

\* The setInterval chains that resetGame or goToMenu has not interrupted.
Uncancelled(rs) == {r \in rs : r.mark = "live"}

\* C17 (order): an uncancelled playback run of a Sequence of length n
\* highlights Sequence[0], ..., Sequence[n-1] in that order, each highlight
\* cleared before the next one; it ends only after the n-th highlight, or
\* when resetGame, goToMenu or a new showSequence ends it; the transition to
\* input comes after the last clear and sets GameState to input.
C17_PlaybackInOrder ==
  [][LET Goes(r, k) ==
           \E q \in intervals' :
             q.id = r.id /\ q.seq = r.seq /\ q.mark = "live" /\ q.index = k
         Highlights(r) ==
           /\ r.index < Len(r.seq)
           /\ Goes(r, r.index + 1)
           /\ Ev("highlight", r.seq[r.index + 1], "live") \in emitted'
           /\ \A t \in timeouts : t.kind = "clear" => t.run # r.id
         Finishes(r) ==
           /\ last'.op = "interval"
           /\ r.index = Len(r.seq)
           /\ r.id \notin LiveIds'
           /\ \E t \in timeouts' \ timeouts :
                t.kind = "input" /\ t.run = r.id /\ t.left = InputDelay
         Ended(r) ==
           /\ r.id \notin {q.id : q \in Uncancelled(intervals')}
           /\ \/ last'.op \in {"resetGame", "goToMenu"}
              \/ sequenceInterval' \notin {0, r.id}
     IN  /\ \A r \in Uncancelled(intervals) :
              Goes(r, r.index) \/ Highlights(r) \/ Finishes(r) \/ Ended(r)
         /\ \A e \in emitted' :
              (e.ev = "highlight" /\ e.mark = "live") =>
                \E r \in Uncancelled(intervals) : Highlights(r)
         /\ last' = [op |-> "clear", mark |-> "live"] =>
              showingIndex' = -1 /\ \E e \in emitted' : e.ev = "clear"
         /\ last' = [op |-> "input", mark |-> "live"] =>
              /\ gameState' = "input"
              /\ \A t \in timeouts \ timeouts' :
                   \A c \in timeouts : c.kind = "clear" => c.run # t.run]_vars

\* C18: every element of Sequence is a button index of the selected
\* difficulty.
C18_SequenceInRange ==
  \A i \in 1 .. Len(sequence) : sequence[i] \in 0 .. (Buttons(difficulty) - 1)

\* C19: GameState leaves idle only through startGame; in particular, after
\* goToMenu no timer callback moves the game out of idle.
C19_IdleUntilStart ==
  [][(gameState = "idle" /\ gameState' # "idle") => last'.op = "startGame"]_vars

\* C20: while a playback run is in progress (its interval is live),
\* GameState is showing and the run plays the current Sequence.
C20_PlaybackOfSequenceWhileShowing ==
  \A r \in intervals : gameState = "showing" /\ r.seq = sequence

====
